---- MODULE Spec2Model ----
(***************************************************************************)
(* Model of the orchestration in OpenCppCoverage/OpenCppCoverage.cpp:      *)
(* OpenCppCoverage::Run parses the options, runs the pipeline              *)
(*   LoadInputCoverageDatas -> RunCoverage -> Merge -> MergeFileCoverage   *)
(*   -> Export                                                             *)
(* inside a try block, displays the warnings and returns a status.         *)
(*                                                                         *)
(* An optional value (a pointer that may be null, a boost::optional) is a  *)
(* sequence of length 0 or 1.  Every call that may throw has a throwing    *)
(* outcome next to its returning outcome.  InitLogger and the LOG_INFO     *)
(* lines only set up and write the log and are left out; the LOG_ERROR     *)
(* records are kept in `log`.                                              *)
(***************************************************************************)
EXTENDS Integers, Sequences, FiniteSets, TLC

VARIABLES
    pc,               \* position in OpenCppCoverage::Run / the inner Run
    options,          \* result of optionsParser.Parse: <<>> or <<options>>
    status,           \* local `status` of OpenCppCoverage::Run
    coveraDatas,      \* local vector `coveraDatas` of the inner Run
    exitCode,         \* local `exitCode` of the inner Run
    coverageData,     \* local `coverageData` of the inner Run (the merged model)
    runCoverageCalls, \* number of calls of CodeCoverageRunner::RunCoverage
    runResult,        \* <<>> or <<what RunCoverage returned>>
    loadCalls,        \* number of calls of CoverageDataDeserializer::Deserialize
    mergeCalls,       \* number of calls of CoverageDataMerger::Merge
    mergeArg,         \* the argument of the last call of Merge
    mergeResult,      \* what the last call of Merge returned
    aggregateCalls,   \* number of calls of MergeFileCoverage
    exportCalls,      \* the calls of IExporter::Export made, in order
    written,          \* the calls of IExporter::Export that returned, in order
    thrown,           \* <<>> or <<the exception in flight or last caught>>
    escaped,          \* TRUE when an exception left OpenCppCoverage::Run
    warningsDisplayed,\* number of calls of WarningManager::DisplayWarnings
    log,              \* the LOG_ERROR records, in order
    returned          \* <<>> or <<the value OpenCppCoverage::Run returned>>

vars == << pc, options, status, coveraDatas, exitCode, coverageData,
           runCoverageCalls, runResult, loadCalls, mergeCalls, mergeArg,
           mergeResult, aggregateCalls, exportCalls, written, thrown, escaped,
           warningsDisplayed, log, returned >>

----------------------------------------------------------------------------
(* Bounds of the model *)

MaxInputs == 2
MaxExports == 2

----------------------------------------------------------------------------
(* Program constants and value sets *)

FailureExitCode == 57005

OptionsExportType == {"Html", "Cobertura", "Binary"}

ExceptionKinds == {"std::exception", "other"}

\* Sequences over S of length at most n
RECURSIVE SeqUpTo(_, _)
SeqUpTo(S, n) ==
    IF n = 0 THEN {<<>>}
    ELSE LET shorter == SeqUpTo(S, n - 1)
         IN  shorter \cup {Append(s, x) : s \in {t \in shorter : Len(t) = n - 1}, x \in S}

----------------------------------------------------------------------------
(* Coverage data: cov::CoverageData owns modules, a module owns files, a    *)
(* file owns lines keyed by line number, a line has hasBeenExecuted.        *)

File(path, lines) == [path |-> path, lines |-> lines]

Module(path, files) == [path |-> path, files |-> files]

CoverageData(modules, code) == [modules |-> modules, exitCode |-> code]

EmptyCoverageData == CoverageData(<<>>, 0)

ModulePaths == {"m1.exe", "m2.dll"}

FilePaths == {"f1.cpp", "f2.cpp"}

LineNumbers == 1..3

\* Position of the entry of `seq` whose path is `path`, 0 when there is none
IndexOfPath(seq, path) ==
    IF \E i \in 1..Len(seq) : seq[i].path = path
    THEN CHOOSE i \in 1..Len(seq) : seq[i].path = path
    ELSE 0

\* A line is executed in the union when it is executed on either side
MergeLines(a, b) ==
    [l \in (DOMAIN a) \cup (DOMAIN b) |->
        (l \in DOMAIN a /\ a[l]) \/ (l \in DOMAIN b /\ b[l])]

AddFile(files, f) ==
    LET i == IndexOfPath(files, f.path)
    IN  IF i = 0 THEN Append(files, f)
        ELSE [files EXCEPT ![i].lines = MergeLines(@, f.lines)]

RECURSIVE AddFiles(_, _)
AddFiles(files, fs) ==
    IF fs = <<>> THEN files
    ELSE AddFiles(AddFile(files, Head(fs)), Tail(fs))

AddModule(modules, m) ==
    LET i == IndexOfPath(modules, m.path)
    IN  IF i = 0 THEN Append(modules, Module(m.path, AddFiles(<<>>, m.files)))
        ELSE [modules EXCEPT ![i].files = AddFiles(@, m.files)]

RECURSIVE AddModules(_, _)
AddModules(modules, ms) ==
    IF ms = <<>> THEN modules
    ELSE AddModules(AddModule(modules, Head(ms)), Tail(ms))

RECURSIVE MergeModules(_, _)
MergeModules(modules, datas) ==
    IF datas = <<>> THEN modules
    ELSE MergeModules(AddModules(modules, Head(datas).modules), Tail(datas))

\* CoverageDataMerger::Merge: the inputs folded, in order, into a new model
Merge(datas) == CoverageData(MergeModules(<<>>, datas), 0)

\* The lines of every entry of file `path`, in any module, merged
LinesOfFile(data, path) ==
    LET entries == {<<i, j>> \in (1..Len(data.modules)) \X (1..Cardinality(FilePaths)) :
                        /\ j <= Len(data.modules[i].files)
                        /\ data.modules[i].files[j].path = path}
        lineOf(e) == data.modules[e[1]].files[e[2]].lines
    IN  [l \in UNION {DOMAIN lineOf(e) : e \in entries} |->
            \E e \in entries : l \in DOMAIN lineOf(e) /\ lineOf(e)[l]]

\* CoverageDataMerger::MergeFileCoverage: every entry of a file shows the
\* file's lines aggregated over all the modules that reference it
MergeFileCoverage(data) ==
    [data EXCEPT !.modules =
        [i \in 1..Len(data.modules) |->
            [data.modules[i] EXCEPT !.files =
                [j \in 1..Len(data.modules[i].files) |->
                    [data.modules[i].files[j] EXCEPT
                        !.lines = LinesOfFile(data, data.modules[i].files[j].path)]]]]]

----------------------------------------------------------------------------
(* The environment: the coverage files on disk, the targets, the results a  *)
(* run of a target can produce.                                             *)

SnapshotA ==
    CoverageData(<< Module("m1.exe", << File("f1.cpp", (1 :> TRUE) @@ (2 :> FALSE)) >>) >>, 0)

SnapshotB ==
    CoverageData(<< Module("m2.dll", << File("f1.cpp", (1 :> FALSE) @@ (2 :> TRUE)),
                                        File("f2.cpp", (1 :> FALSE)) >>) >>, 4)

SnapshotC ==
    CoverageData(<< Module("m2.dll", << File("f2.cpp", (2 :> TRUE) @@ (3 :> FALSE)) >>),
                    Module("m1.exe", << File("f2.cpp", (3 :> TRUE)),
                                        File("f1.cpp", (1 :> FALSE) @@ (3 :> FALSE)) >>) >>, 0)

RunDataA ==
    << Module("m2.dll", << File("f2.cpp", (1 :> TRUE)),
                           File("f1.cpp", (1 :> FALSE) @@ (3 :> TRUE)) >>),
       Module("m1.exe", << File("f1.cpp", (2 :> TRUE) @@ (3 :> FALSE)) >>) >>

RunDataB ==
    << Module("m1.exe", << File("f1.cpp", (1 :> FALSE) @@ (2 :> FALSE)) >>) >>

\* The paths --input_coverage can name; "bad.cov" is not a coverage file
InputCoveragePaths == {"a.cov", "b.cov", "bad.cov"}

\* CoverageDataDeserializer::Deserialize: the model stored in the file, or
\* no model when the file is not in the expected format (it then throws)
Deserialize(path) ==
    CASE path = "a.cov" -> << SnapshotA >>
      [] path = "b.cov" -> << SnapshotB >>
      [] path = "c.cov" -> << SnapshotC >>
      [] OTHER -> << >>

\* A path is its directories and its file name; a file name is its
\* dot-separated parts: <<"my", "app", "exe">> is my.app.exe
StartInfoPaths ==
    { [dir |-> << "C:", "bin" >>, filename |-> << "my", "app", "exe" >>],
      [dir |-> << >>, filename |-> << "tool" >>] }

\* What CodeCoverageRunner::RunCoverage can return: the coverage collected
\* up to the terminal state of the target, and the target's exit code
RunOutcomes ==
    { [state |-> "Normal", data |-> CoverageData(RunDataA, 0)],
      [state |-> "Normal", data |-> CoverageData(RunDataB, 3)],
      [state |-> "Crashed", data |-> CoverageData(RunDataB, -5)],
      [state |-> "TimedOut", data |-> CoverageData(RunDataA, 1)] }

\* cov::OptionsExport: a type and an optional output path
OptionsExport(type, outputPath) == [type |-> type, outputPath |-> outputPath]

\* The exports the options can name: every type, with and without an
\* output path, one type both ways
OptionsExports ==
    { OptionsExport("Html", << >>),
      OptionsExport("Html", << << "out" >> >>),
      OptionsExport("Cobertura", << >>),
      OptionsExport("Binary", << << "out" >> >>) }

\* cov::Options, as far as the orchestration reads it
OptionsSet ==
    [startInfo : { << >> } \cup { << p >> : p \in StartInfoPaths },
     inputCoveragePaths : SeqUpTo(InputCoveragePaths, MaxInputs),
     exports : SeqUpTo(OptionsExports, MaxExports),
     aggregateByFile : BOOLEAN]

\* The options of the runs that merge and export nothing: more coverage
\* files to merge, in any order
MergeOptionsSet ==
    [startInfo : { << >> } \cup { << p >> : p \in StartInfoPaths },
     inputCoveragePaths : SeqUpTo(InputCoveragePaths \cup {"c.cov"}, MaxInputs),
     exports : { << >> },
     aggregateByFile : BOOLEAN]

----------------------------------------------------------------------------
(* Paths and exporters *)

\* fs::path::filename
Filename(path) == path.filename

\* fs::path::replace_extension(""): the last dot-separated part goes, when
\* the name has one
ReplaceExtensionByEmpty(filename) ==
    IF Len(filename) > 1 THEN SubSeq(filename, 1, Len(filename) - 1) ELSE filename

\* GetDefaultPathPrefix with the extension left in the file name
GetDefaultPathPrefixKeepingExtension(opts) ==
    IF opts.startInfo # << >>
    THEN Filename(opts.startInfo[1])
    ELSE << "CoverageOutput" >>

GetDefaultPathPrefix(opts) ==
    IF opts.startInfo # << >>
    THEN ReplaceExtensionByEmpty(Filename(opts.startInfo[1]))
    ELSE << "CoverageOutput" >>

\* The map `exporters` of Export: one IExporter per OptionsExportType
Exporters ==
    ("Html" :> "HtmlExporter") @@ ("Cobertura" :> "CoberturaExporter")
        @@ ("Binary" :> "BinaryExporter")

\* IExporter::GetDefaultPath: a path of the exporter's own, made from the prefix
GetDefaultPath(exporter, prefix) == << exporter, "default" >> \o prefix

\* The output path of one configured export
OutputOf(opts, singleExport) ==
    IF singleExport.outputPath # << >>
    THEN singleExport.outputPath[1]
    ELSE GetDefaultPath(Exporters[singleExport.type], GetDefaultPathPrefix(opts))

\* One call of IExporter::Export
ExportCall(opts, singleExport, coverage) ==
    [exporter |-> Exporters[singleExport.type],
     coverage |-> coverage,
     output |-> OutputOf(opts, singleExport)]

----------------------------------------------------------------------------
(* The state machine *)

Init ==
    /\ pc = "parse"
    /\ options = << >>
    /\ status = 0
    /\ coveraDatas = << >>
    /\ exitCode = 0
    /\ coverageData = EmptyCoverageData
    /\ runCoverageCalls = 0
    /\ runResult = << >>
    /\ loadCalls = 0
    /\ mergeCalls = 0
    /\ mergeArg = << >>
    /\ mergeResult = EmptyCoverageData
    /\ aggregateCalls = 0
    /\ exportCalls = << >>
    /\ written = << >>
    /\ thrown = << >>
    /\ escaped = FALSE
    /\ warningsDisplayed = 0
    /\ log = << >>
    /\ returned = << >>

\* An exception leaves the call made at `stage` and unwinds to the try
\* block of OpenCppCoverage::Run
Throw(stage, kind) ==
    /\ thrown' = << [stage |-> stage, kind |-> kind] >>
    /\ pc' = "catch"

\* Parse with `status` starting as success
ParseStatusZero ==
    /\ pc = "parse"
    /\ \E o \in { << >> } \cup { << x >> : x \in OptionsSet } :
          /\ options' = o
          /\ pc' = IF o # << >> THEN "load" ELSE "return"
    /\ status' = 0
    /\ UNCHANGED << coveraDatas, exitCode, coverageData, runCoverageCalls,
                    runResult, loadCalls, mergeCalls, mergeArg, mergeResult,
                    aggregateCalls, exportCalls, written, thrown, escaped,
                    warningsDisplayed, log, returned >>

\* OpenCppCoverage::Run up to `if (options)`: Parse yields the options or
\* nothing, status starts as FailureExitCode
Parse ==
    /\ pc = "parse"
    /\ \E o \in { << >> } \cup { << x >> : x \in OptionsSet } :
          /\ options' = o
          /\ pc' = IF o # << >> THEN "load" ELSE "return"
    /\ status' = FailureExitCode
    /\ UNCHANGED << coveraDatas, exitCode, coverageData, runCoverageCalls,
                    runResult, loadCalls, mergeCalls, mergeArg, mergeResult,
                    aggregateCalls, exportCalls, written, thrown, escaped,
                    warningsDisplayed, log, returned >>

\* Parse, for the runs that merge and export nothing
ParseMergeOptions ==
    /\ pc = "parse"
    /\ \E o \in MergeOptionsSet :
          /\ options' = << o >>
          /\ pc' = "load"
    /\ status' = FailureExitCode
    /\ UNCHANGED << coveraDatas, exitCode, coverageData, runCoverageCalls,
                    runResult, loadCalls, mergeCalls, mergeArg, mergeResult,
                    aggregateCalls, exportCalls, written, thrown, escaped,
                    warningsDisplayed, log, returned >>

\* LoadInputCoverageData with a file that cannot be deserialized skipped
LoadSkippingUnreadable ==
    /\ pc = "load"
    /\ loadCalls < Len(options[1].inputCoveragePaths)
    /\ LET path == options[1].inputCoveragePaths[loadCalls + 1]
           data == Deserialize(path)
       IN  /\ loadCalls' = loadCalls + 1
           /\ coveraDatas' = IF data # << >> THEN Append(coveraDatas, data[1])
                             ELSE coveraDatas
    /\ UNCHANGED << pc, thrown, options, status, exitCode, coverageData,
                    runCoverageCalls, runResult, mergeCalls, mergeArg,
                    mergeResult, aggregateCalls, exportCalls, written,
                    escaped, warningsDisplayed, log, returned >>

\* One turn of the loop of LoadInputCoverageDatas: the next path is
\* deserialized and its model pushed back, or Deserialize throws
LoadInputCoverageData ==
    /\ pc = "load"
    /\ loadCalls < Len(options[1].inputCoveragePaths)
    /\ LET path == options[1].inputCoveragePaths[loadCalls + 1]
           data == Deserialize(path)
       IN  /\ loadCalls' = loadCalls + 1
           /\ IF data # << >>
              THEN /\ coveraDatas' = Append(coveraDatas, data[1])
                   /\ UNCHANGED << pc, thrown >>
              ELSE /\ Throw("load", "std::exception")
                   /\ UNCHANGED coveraDatas
    /\ UNCHANGED << options, status, exitCode, coverageData, runCoverageCalls,
                    runResult, mergeCalls, mergeArg, mergeResult,
                    aggregateCalls, exportCalls, written, escaped,
                    warningsDisplayed, log, returned >>

\* StartProgram with the target started while inputs are still to be loaded
StartProgramBeforeLoading ==
    /\ pc = "load"
    /\ exitCode' = 0
    /\ pc' = IF options[1].startInfo # << >> THEN "run" ELSE "merge"
    /\ UNCHANGED << options, status, coveraDatas, coverageData,
                    runCoverageCalls, runResult, loadCalls, mergeCalls,
                    mergeArg, mergeResult, aggregateCalls, exportCalls,
                    written, thrown, escaped, warningsDisplayed, log,
                    returned >>

\* LoadInputCoverageDatas returns; the inner Run reads startInfo and goes
\* to RunCoverage when there is a target, to Merge when there is none
StartProgram ==
    /\ pc = "load"
    /\ loadCalls = Len(options[1].inputCoveragePaths)
    /\ exitCode' = 0
    /\ pc' = IF options[1].startInfo # << >> THEN "run" ELSE "merge"
    /\ UNCHANGED << options, status, coveraDatas, coverageData,
                    runCoverageCalls, runResult, loadCalls, mergeCalls,
                    mergeArg, mergeResult, aggregateCalls, exportCalls,
                    written, thrown, escaped, warningsDisplayed, log,
                    returned >>

\* RunCoverageReturns with a non-zero exit code ending the inner Run at once
RunCoverageReturnsOnExitCode ==
    /\ pc = "run"
    /\ \E outcome \in RunOutcomes :
          /\ runResult' = << outcome >>
          /\ exitCode' = outcome.data.exitCode
          /\ coveraDatas' = Append(coveraDatas, outcome.data)
          /\ IF outcome.data.exitCode # 0
             THEN /\ status' = outcome.data.exitCode
                  /\ pc' = "warnings"
             ELSE /\ pc' = "merge"
                  /\ UNCHANGED status
    /\ runCoverageCalls' = runCoverageCalls + 1
    /\ UNCHANGED << options, coverageData, loadCalls, mergeCalls,
                    mergeArg, mergeResult, aggregateCalls, exportCalls,
                    written, thrown, escaped, warningsDisplayed, log,
                    returned >>

\* RunCoverageReturns with the run result put first
RunCoverageReturnsResultFirst ==
    /\ pc = "run"
    /\ \E outcome \in RunOutcomes :
          /\ runResult' = << outcome >>
          /\ exitCode' = outcome.data.exitCode
          /\ coveraDatas' = << outcome.data >> \o coveraDatas
    /\ runCoverageCalls' = runCoverageCalls + 1
    /\ pc' = "merge"
    /\ UNCHANGED << options, status, coverageData, loadCalls, mergeCalls,
                    mergeArg, mergeResult, aggregateCalls, exportCalls,
                    written, thrown, escaped, warningsDisplayed, log,
                    returned >>

\* RunCoverageReturns with the run result not pushed back
RunCoverageReturnsResultDropped ==
    /\ pc = "run"
    /\ \E outcome \in RunOutcomes :
          /\ runResult' = << outcome >>
          /\ exitCode' = outcome.data.exitCode
    /\ runCoverageCalls' = runCoverageCalls + 1
    /\ pc' = "merge"
    /\ UNCHANGED << options, status, coveraDatas, coverageData, loadCalls,
                    mergeCalls, mergeArg, mergeResult, aggregateCalls,
                    exportCalls, written, thrown, escaped, warningsDisplayed,
                    log, returned >>

\* RunCoverage returns when the target has reached a terminal state: its
\* exit code is kept and its coverage is pushed back, last
RunCoverageReturns ==
    /\ pc = "run"
    /\ \E outcome \in RunOutcomes :
          /\ runResult' = << outcome >>
          /\ exitCode' = outcome.data.exitCode
          /\ coveraDatas' = Append(coveraDatas, outcome.data)
    /\ runCoverageCalls' = runCoverageCalls + 1
    /\ pc' = "merge"
    /\ UNCHANGED << options, status, coverageData, loadCalls, mergeCalls,
                    mergeArg, mergeResult, aggregateCalls, exportCalls,
                    written, thrown, escaped, warningsDisplayed, log,
                    returned >>

\* RunCoverage throws (the target cannot be launched, the engine fails)
RunCoverageThrows ==
    /\ pc = "run"
    /\ runCoverageCalls' = runCoverageCalls + 1
    /\ \E kind \in ExceptionKinds : Throw("run", kind)
    /\ UNCHANGED << options, status, coveraDatas, exitCode, coverageData,
                    runResult, loadCalls, mergeCalls, mergeArg, mergeResult,
                    aggregateCalls, exportCalls, written, escaped,
                    warningsDisplayed, log, returned >>

\* MergeReturns with MergeFileCoverage applied whatever the flag
MergeReturnsAlwaysAggregates ==
    /\ pc = "merge"
    /\ mergeCalls' = mergeCalls + 1
    /\ mergeArg' = coveraDatas
    /\ mergeResult' = Merge(coveraDatas)
    /\ coverageData' = Merge(coveraDatas)
    /\ pc' = "aggregate"
    /\ UNCHANGED << options, status, coveraDatas, exitCode, runCoverageCalls,
                    runResult, loadCalls, aggregateCalls, exportCalls,
                    written, thrown, escaped, warningsDisplayed, log,
                    returned >>

\* coverageDataMerger.Merge(coveraDatas) returns the merged model
MergeReturns ==
    /\ pc = "merge"
    /\ mergeCalls' = mergeCalls + 1
    /\ mergeArg' = coveraDatas
    /\ mergeResult' = Merge(coveraDatas)
    /\ coverageData' = Merge(coveraDatas)
    /\ pc' = IF options[1].aggregateByFile THEN "aggregate" ELSE "export"
    /\ UNCHANGED << options, status, coveraDatas, exitCode, runCoverageCalls,
                    runResult, loadCalls, aggregateCalls, exportCalls,
                    written, thrown, escaped, warningsDisplayed, log,
                    returned >>

MergeThrows ==
    /\ pc = "merge"
    /\ mergeCalls' = mergeCalls + 1
    /\ mergeArg' = coveraDatas
    /\ \E kind \in ExceptionKinds : Throw("merge", kind)
    /\ UNCHANGED << options, status, coveraDatas, exitCode, coverageData,
                    runCoverageCalls, runResult, loadCalls, mergeResult,
                    aggregateCalls, exportCalls, written, escaped,
                    warningsDisplayed, log, returned >>

\* coverageDataMerger.MergeFileCoverage(coverageData), in place
MergeFileCoverageReturns ==
    /\ pc = "aggregate"
    /\ aggregateCalls' = aggregateCalls + 1
    /\ coverageData' = MergeFileCoverage(coverageData)
    /\ pc' = "export"
    /\ UNCHANGED << options, status, coveraDatas, exitCode, runCoverageCalls,
                    runResult, loadCalls, mergeCalls, mergeArg, mergeResult,
                    exportCalls, written, thrown, escaped, warningsDisplayed,
                    log, returned >>

MergeFileCoverageThrows ==
    /\ pc = "aggregate"
    /\ aggregateCalls' = aggregateCalls + 1
    /\ \E kind \in ExceptionKinds : Throw("aggregate", kind)
    /\ UNCHANGED << options, status, coveraDatas, exitCode, coverageData,
                    runCoverageCalls, runResult, loadCalls, mergeCalls,
                    mergeArg, mergeResult, exportCalls, written, escaped,
                    warningsDisplayed, log, returned >>

\* One turn of the loop of Export: the exporter of the next configured
\* export is called with the model and the output path, and returns
ExportReturns ==
    /\ pc = "export"
    /\ Len(exportCalls) < Len(options[1].exports)
    /\ LET call == ExportCall(options[1],
                              options[1].exports[Len(exportCalls) + 1],
                              coverageData)
       IN  /\ exportCalls' = Append(exportCalls, call)
           /\ written' = Append(written, call)
    /\ UNCHANGED << pc, options, status, coveraDatas, exitCode, coverageData,
                    runCoverageCalls, runResult, loadCalls, mergeCalls,
                    mergeArg, mergeResult, aggregateCalls, thrown, escaped,
                    warningsDisplayed, log, returned >>

\* ... or throws: nothing is written for it
ExportThrows ==
    /\ pc = "export"
    /\ Len(exportCalls) < Len(options[1].exports)
    /\ exportCalls' = Append(exportCalls,
                             ExportCall(options[1],
                                        options[1].exports[Len(exportCalls) + 1],
                                        coverageData))
    /\ \E kind \in ExceptionKinds : Throw("export", kind)
    /\ UNCHANGED << options, status, coveraDatas, exitCode, coverageData,
                    runCoverageCalls, runResult, loadCalls, mergeCalls,
                    mergeArg, mergeResult, aggregateCalls, written, escaped,
                    warningsDisplayed, log, returned >>

\* ReturnExitCode with a non-zero exit code of the target taken for a
\* failure of the run
ReturnFailureOnNonZeroExit ==
    /\ pc = "export"
    /\ Len(exportCalls) = Len(options[1].exports)
    /\ log' = IF exitCode # 0
              THEN Append(log, [message |-> "Your program stop with error code",
                                code |-> exitCode])
              ELSE log
    /\ status' = IF exitCode # 0 THEN FailureExitCode ELSE 0
    /\ pc' = "warnings"
    /\ UNCHANGED << options, coveraDatas, exitCode, coverageData,
                    runCoverageCalls, runResult, loadCalls, mergeCalls,
                    mergeArg, mergeResult, aggregateCalls, exportCalls,
                    written, thrown, escaped, warningsDisplayed, returned >>

\* Export returns; the inner Run logs a non-zero exit code and returns
\* exitCode, which becomes `status`
ReturnExitCode ==
    /\ pc = "export"
    /\ Len(exportCalls) = Len(options[1].exports)
    /\ log' = IF exitCode # 0
              THEN Append(log, [message |-> "Your program stop with error code",
                                code |-> exitCode])
              ELSE log
    /\ status' = exitCode
    /\ pc' = "warnings"
    /\ UNCHANGED << options, coveraDatas, exitCode, coverageData,
                    runCoverageCalls, runResult, loadCalls, mergeCalls,
                    mergeArg, mergeResult, aggregateCalls, exportCalls,
                    written, thrown, escaped, warningsDisplayed, returned >>

\* The handlers without the catch-all
CatchClausesStdOnly == << "std::exception" >>

\* The handlers of the try block, in order
CatchClauses == << "std::exception", "..." >>

\* Whether a handler takes an exception of the kind
Handles(clause, kind) == clause = "..." \/ clause = kind

\* The exception reaches the try block: the first handler that takes it
\* logs it and status keeps FailureExitCode; with no such handler the
\* exception leaves OpenCppCoverage::Run
Catch ==
    /\ pc = "catch"
    /\ LET kind == thrown[1].kind
           takers == { i \in 1..Len(CatchClauses) : Handles(CatchClauses[i], kind) }
       IN  IF takers # {}
           THEN LET first == CHOOSE i \in takers : \A j \in takers : i <= j
                IN  /\ log' = Append(log,
                                [message |-> IF CatchClauses[first] = "..."
                                             THEN "Unkown Error" ELSE "Error: ",
                                 code |-> 0])
                    /\ pc' = "warnings"
                    /\ UNCHANGED escaped
           ELSE /\ escaped' = TRUE
                /\ pc' = "done"
                /\ UNCHANGED log
    /\ UNCHANGED << options, status, coveraDatas, exitCode, coverageData,
                    runCoverageCalls, runResult, loadCalls, mergeCalls,
                    mergeArg, mergeResult, aggregateCalls, exportCalls,
                    written, thrown, warningsDisplayed, returned >>

\* warningManager->DisplayWarnings(), then the pause of the plugin mode
\* when it is enabled (std::cin.get(), which changes nothing of the state)
DisplayWarnings ==
    /\ pc = "warnings"
    /\ warningsDisplayed' = warningsDisplayed + 1
    /\ pc' = "return"
    /\ UNCHANGED << options, status, coveraDatas, exitCode, coverageData,
                    runCoverageCalls, runResult, loadCalls, mergeCalls,
                    mergeArg, mergeResult, aggregateCalls, exportCalls,
                    written, thrown, escaped, log, returned >>

\* return status
Return ==
    /\ pc = "return"
    /\ returned' = << status >>
    /\ pc' = "done"
    /\ UNCHANGED << options, status, coveraDatas, exitCode, coverageData,
                    runCoverageCalls, runResult, loadCalls, mergeCalls,
                    mergeArg, mergeResult, aggregateCalls, exportCalls,
                    written, thrown, escaped, warningsDisplayed, log >>

Next ==
    \/ Parse
    \/ LoadInputCoverageData
    \/ StartProgram
    \/ RunCoverageReturns
    \/ RunCoverageThrows
    \/ MergeReturns
    \/ MergeThrows
    \/ MergeFileCoverageReturns
    \/ MergeFileCoverageThrows
    \/ ExportReturns
    \/ ExportThrows
    \/ ReturnExitCode
    \/ Catch
    \/ DisplayWarnings
    \/ Return

Spec == Init /\ [][Next]_vars

\* The runs that merge and export nothing
NextMerge ==
    \/ ParseMergeOptions
    \/ LoadInputCoverageData
    \/ StartProgram
    \/ RunCoverageReturns
    \/ RunCoverageThrows
    \/ MergeReturns
    \/ MergeThrows
    \/ MergeFileCoverageReturns
    \/ MergeFileCoverageThrows
    \/ ReturnExitCode
    \/ Catch
    \/ DisplayWarnings
    \/ Return

SpecMerge == Init /\ [][NextMerge]_vars

----------------------------------------------------------------------------
(* Vocabulary of the properties *)

Parsed == options # << >>

HasTarget == Parsed /\ options[1].startInfo # << >>

InputPaths == options[1].inputCoveragePaths

\* The pipeline is over: nothing of it runs any more
PipelineOver == pc \in {"warnings", "return", "done"}

ThrownAt(stage) == thrown # << >> /\ thrown[1].stage = stage

\* Some path handed to Deserialize so far is not a coverage file
SomeLoadFailed ==
    Parsed /\ \E i \in 1..loadCalls : Deserialize(InputPaths[i]) = << >>

\* The models of the first n configured inputs, in configured order (all
\* of them readable)
InputSnapshots(n) == [i \in 1..n |-> Deserialize(InputPaths[i])[1]]

\* Merge has been called and has returned
MergeReturned == mergeCalls = 1 /\ ~ThrownAt("merge")

\* Status of line l of file f of module m: "none" (no such line),
\* "unhit" (executable, not executed) or "hit"
ModuleLineStatus(data, m, f, l) ==
    LET i == IndexOfPath(data.modules, m)
        j == IF i = 0 THEN 0 ELSE IndexOfPath(data.modules[i].files, f)
    IN  IF j = 0 THEN "none"
        ELSE LET lines == data.modules[i].files[j].lines
             IN  IF l \notin DOMAIN lines THEN "none"
                 ELSE IF lines[l] THEN "hit" ELSE "unhit"

\* Status of line l of file f, whatever the module
FileLineStatus(data, f, l) ==
    LET lines == LinesOfFile(data, f)
    IN  IF l \notin DOMAIN lines THEN "none"
        ELSE IF lines[l] THEN "hit" ELSE "unhit"

\* Two models give every line of every file the same status, whatever the
\* module
SameFileLineStatus(a, b) ==
    \/ a = b
    \/ \A f \in FilePaths :
          LET la == LinesOfFile(a, f)
              lb == LinesOfFile(b, f)
          IN  \A l \in LineNumbers :
                 /\ l \in DOMAIN la <=> l \in DOMAIN lb
                 /\ l \in DOMAIN la => la[l] = lb[l]

\* Two models give every line of every file of every module the same status
SameLineStatus(a, b) ==
    \A m \in ModulePaths, f \in FilePaths, l \in LineNumbers :
        ModuleLineStatus(a, m, f, l) = ModuleLineStatus(b, m, f, l)

\* The sequence s rearranged by the permutation p of its indexes
Permuted(s, p) == [i \in 1..Len(s) |-> s[p[i]]]

----------------------------------------------------------------------------
(* C1: when the pipeline completes without throwing, OpenCppCoverage::Run   *)
(* returns the exit code of the target's coverage result when a target is   *)
(* configured, and 0 when none is; a non-zero exit code is returned as is.  *)
C1_StatusIsTargetExitCode ==
    (pc = "done" /\ Parsed /\ thrown = << >>) =>
        /\ HasTarget => /\ runResult # << >>
                        /\ returned = << runResult[1].data.exitCode >>
        /\ ~HasTarget => returned = << 0 >>

C1_Witness ==
    /\ pc = "done" /\ HasTarget /\ thrown = << >>
    /\ runResult # << >>
    /\ runResult[1].data.exitCode # 0
    /\ returned = << runResult[1].data.exitCode >>
    /\ written # << >>

(* C2: when the options were parsed and a stage of the pipeline throws,     *)
(* the exception is caught in OpenCppCoverage::Run, which then displays the *)
(* warnings and returns FailureExitCode (non-zero); no exception leaves it. *)
C2_FailureCaughtAtBoundary ==
    /\ FailureExitCode # 0
    /\ ~escaped
    /\ (thrown # << >> /\ pc \in {"return", "done"}) =>
            /\ warningsDisplayed = 1
            /\ status = FailureExitCode
    /\ (thrown # << >> /\ pc = "done") => returned = << FailureExitCode >>

C2_Witness ==
    /\ pc = "done"
    /\ ThrownAt("export") /\ thrown[1].kind = "other"
    /\ written # << >>
    /\ warningsDisplayed = 1
    /\ returned = << FailureExitCode >>

(* C5: when option parsing yields no options, OpenCppCoverage::Run returns  *)
(* FailureExitCode and nothing is loaded, run, merged or exported.          *)
C5_NoOptionsAbortsBeforeAnything ==
    (~Parsed /\ pc # "parse") =>
        /\ loadCalls = 0
        /\ runCoverageCalls = 0
        /\ mergeCalls = 0
        /\ aggregateCalls = 0
        /\ exportCalls = << >>
        /\ status = FailureExitCode
        /\ pc = "done" => returned = << FailureExitCode >>

C5_Witness ==
    /\ ~Parsed /\ pc = "done"
    /\ returned = << FailureExitCode >>
    /\ loadCalls = 0 /\ runCoverageCalls = 0

(* C3, as stated: a corrupted input snapshot is fatal to that input only;   *)
(* when one configured input fails to deserialize, the remaining inputs     *)
(* (and the run result, with a target) are still merged and the merged      *)
(* model is still exported.                                                 *)
C3_CorruptedInputFatalToThatInputOnly ==
    (/\ pc = "done"
     /\ SomeLoadFailed
     /\ \E i \in 1..Len(InputPaths) : Deserialize(InputPaths[i]) # << >>
     /\ Len(options[1].exports) > 0) =>
        /\ mergeCalls = 1
        /\ \A i \in 1..Len(InputPaths) :
              Deserialize(InputPaths[i]) # << >> =>
                  \E k \in 1..Len(mergeArg) : mergeArg[k] = Deserialize(InputPaths[i])[1]
        /\ HasTarget => /\ runResult # << >>
                        /\ \E k \in 1..Len(mergeArg) : mergeArg[k] = runResult[1].data
        /\ Len(options[1].exports) > 0 => written # << >>

(* C3, amended: a corrupted input snapshot is fatal to the whole run; when  *)
(* one configured input fails to deserialize, nothing is merged, nothing is *)
(* exported, and OpenCppCoverage::Run returns FailureExitCode.              *)
C3_CorruptedInputFatalToRun ==
    SomeLoadFailed =>
        /\ ThrownAt("load")
        /\ mergeCalls = 0
        /\ aggregateCalls = 0
        /\ exportCalls = << >>
        /\ written = << >>
        /\ pc = "done" => returned = << FailureExitCode >>

C3_Witness ==
    /\ pc = "done" /\ Parsed
    /\ InputPaths = << "a.cov", "bad.cov" >>
    /\ HasTarget
    /\ Len(options[1].exports) = 2
    /\ SomeLoadFailed
    /\ coveraDatas = << SnapshotA >>
    /\ mergeCalls = 0 /\ written = << >>
    /\ returned = << FailureExitCode >>

(* C10: the input snapshots are loaded in configured order before the       *)
(* target is launched; the target runs only after every snapshot has been   *)
(* deserialized, and when deserializing one fails the target is never       *)
(* launched, no later snapshot is loaded and nothing is merged or exported. *)
C10_SnapshotsLoadedBeforeTarget ==
    Parsed =>
        LET failed == SomeLoadFailed
        IN  /\ loadCalls <= Len(InputPaths)
            /\ runCoverageCalls > 0 => loadCalls = Len(InputPaths) /\ ~failed
            /\ ~failed =>
                  coveraDatas = InputSnapshots(loadCalls)
                                    \o (IF runResult # << >> THEN << runResult[1].data >>
                                        ELSE << >>)
            /\ failed =>
                  /\ runCoverageCalls = 0
                  /\ runResult = << >>
                  /\ Deserialize(InputPaths[loadCalls]) = << >>
                  /\ \A i \in 1..(loadCalls - 1) : Deserialize(InputPaths[i]) # << >>
                  /\ coveraDatas = InputSnapshots(loadCalls - 1)
                  /\ mergeCalls = 0
                  /\ exportCalls = << >>

C10_Witness ==
    /\ pc = "done" /\ HasTarget
    /\ InputPaths = << "bad.cov", "a.cov" >>
    /\ loadCalls = 1
    /\ runCoverageCalls = 0
    /\ mergeCalls = 0
    /\ exportCalls = << >>
    /\ options[1].exports # << >>

C10_WitnessLoadedThenRun ==
    /\ runCoverageCalls = 1
    /\ InputPaths = << "b.cov", "a.cov" >>
    /\ coveraDatas = << SnapshotB, SnapshotA, runResult[1].data >>

(* C4: once RunCoverage has returned a coverage result, whatever the        *)
(* terminal state and the exit code of the target, that result is handed to *)
(* Merge, and the merged model goes to every configured export: the merge   *)
(* and the exports are cut short only by an exception of Merge,             *)
(* MergeFileCoverage or an exporter, never by the exit code.                *)
C4_ExitCodeNeverSkipsMergeOrExport ==
    runResult # << >> =>
        /\ pc # "merge" =>
              /\ mergeCalls = 1
              /\ mergeArg # << >>
              /\ mergeArg[Len(mergeArg)] = runResult[1].data
        /\ PipelineOver =>
              \/ ThrownAt("merge") \/ ThrownAt("aggregate") \/ ThrownAt("export")
              \/ /\ thrown = << >>
                 /\ Len(written) = Len(options[1].exports)
                 /\ \A k \in 1..Len(written) : written[k].coverage = coverageData
                 /\ \A m \in ModulePaths, f \in FilePaths, l \in LineNumbers :
                       ModuleLineStatus(runResult[1].data, m, f, l) = "hit"
                           => FileLineStatus(coverageData, f, l) = "hit"

C4_Witness ==
    /\ pc = "done" /\ thrown = << >>
    /\ runResult # << >>
    /\ runResult[1].state = "Crashed"
    /\ runResult[1].data.exitCode # 0
    /\ Len(written) = 2
    /\ written[1].exporter # written[2].exporter

(* C6: the model handed to the exporters is the merge of the input          *)
(* snapshots, in configured order, followed by the run result when a target *)
(* was run; the run result reaches Merge only after RunCoverage returned,   *)
(* Merge is called once, over that whole sequence, and no exporter is       *)
(* called before Merge has returned.                                        *)
C6_ExportedModelIsMergeOfInputsThenRun ==
    /\ mergeCalls <= 1
    /\ runCoverageCalls <= 1
    /\ mergeCalls = 1 =>
          /\ ~SomeLoadFailed
          /\ loadCalls = Len(InputPaths)
          /\ HasTarget <=> runResult # << >>
          /\ HasTarget => runCoverageCalls = 1
          /\ mergeArg = InputSnapshots(Len(InputPaths))
                            \o (IF HasTarget THEN << runResult[1].data >> ELSE << >>)
    /\ exportCalls # << >> =>
          /\ MergeReturned
          /\ mergeResult = Merge(mergeArg)
          /\ LET final == IF options[1].aggregateByFile
                           THEN MergeFileCoverage(mergeResult) ELSE mergeResult
             IN  \A k \in 1..Len(exportCalls) : exportCalls[k].coverage = final

C6_Witness ==
    /\ pc = "done"
    /\ mergeCalls = 1
    /\ InputPaths = << "b.cov", "a.cov" >>
    /\ runResult # << >>
    /\ mergeArg = << SnapshotB, SnapshotA, runResult[1].data >>
    /\ Len(written) = 2

\* The run results the orchestration has in hand when it calls Merge: the
\* configured input snapshots and, with a target, the result of the run
RunResultsInHand ==
    { Deserialize(InputPaths[i])[1] : i \in 1..Len(InputPaths) }
        \cup (IF runResult # << >> THEN { runResult[1].data } ELSE { })

NameWithoutExtension(filename) ==
    CHOOSE stem \in { SubSeq(filename, 1, k) : k \in 1..Len(filename) } :
        \/ Len(filename) = 1 /\ stem = filename
        \/ Len(filename) > 1 /\ Append(stem, filename[Len(filename)]) = filename

\* The default prefix the claim states
ExpectedPrefix ==
    IF HasTarget THEN NameWithoutExtension(options[1].startInfo[1].filename)
    ELSE << "CoverageOutput" >>

\* The exporter the claim maps to a kind
ExporterOfKind(kind) ==
    CASE kind = "Html" -> "HtmlExporter"
      [] kind = "Cobertura" -> "CoberturaExporter"
      [] kind = "Binary" -> "BinaryExporter"

(* C9: the configured exports are served in configured order, each by one   *)
(* call of the exporter of its kind, with the final merged model and with   *)
(* the explicit output path of the entry, or else the exporter's default    *)
(* path made from the default prefix (the target's file name without        *)
(* extension, "CoverageOutput" without a target); an export that throws     *)
(* stops the later ones, and the earlier ones stay written.                 *)
C9_ExportsInOrderWithPaths ==
    Parsed =>
        /\ Len(exportCalls) <= Len(options[1].exports)
        /\ \A k \in 1..Len(exportCalls) :
              LET entry == options[1].exports[k]
              IN  /\ exportCalls[k].exporter = ExporterOfKind(entry.type)
                  /\ exportCalls[k].coverage = coverageData
                  /\ exportCalls[k].output =
                        IF entry.outputPath # << >> THEN entry.outputPath[1]
                        ELSE GetDefaultPath(ExporterOfKind(entry.type), ExpectedPrefix)
        /\ ThrownAt("export") =>
              /\ exportCalls # << >>
              /\ written = SubSeq(exportCalls, 1, Len(exportCalls) - 1)
        /\ ~ThrownAt("export") => written = exportCalls
        /\ (PipelineOver /\ thrown = << >>) =>
              Len(exportCalls) = Len(options[1].exports)

C9_Witness ==
    /\ pc = "done" /\ HasTarget
    /\ options[1].startInfo[1].filename = << "my", "app", "exe" >>
    /\ Len(options[1].exports) = 2
    /\ options[1].exports[1].type = "Cobertura"
    /\ options[1].exports[1].outputPath = << >>
    /\ options[1].exports[2].type = "Html"
    /\ options[1].exports[2].outputPath # << >>
    /\ ThrownAt("export")
    /\ Len(exportCalls) = 2
    /\ written = << [exporter |-> "CoberturaExporter",
                     coverage |-> coverageData,
                     output |-> << "CoberturaExporter", "default", "my", "app" >>] >>

====
